---- MODULE Spec2Model ----
(***************************************************************************)
(* Scheduling and process-supervision core of the multi-channel live       *)
(* stream manager (src/app.py): the stream registry (a DataFrame kept in   *)
(* the session state and mirrored to streams_config.json), the process     *)
(* map, the scheduler tick that runs at the top of every script run, the   *)
(* operator's buttons and forms, and the two background threads every      *)
(* launch creates (delayed go-live, completion watcher).                   *)
(*                                                                         *)
(* Threads: one script thread (a run is the tick followed by at most one   *)
(* widget handler) and, per launched encoder, one watcher thread and one   *)
(* go-live thread.  Threads interleave between Python statements, and the  *)
(* threads of a launch reach the session state the script thread uses, as  *)
(* the code takes for granted.  One browser session is modelled.           *)
(***************************************************************************)
EXTENDS Integers, Sequences, FiniteSets, TLC

(***************************************************************************)
(* Bounds of the model.                                                    *)
(***************************************************************************)
MaxStreams == 2      \* the add forms are offered while fewer rows exist
MaxProcs   == 2      \* encoder launches per behaviour
MaxUid     == 3      \* records created per behaviour
MaxStopCalls == 2    \* uses of the Stop button per record
MaxStopStreams == 1  \* rows in the specification of stopping
MaxLoaded == 3       \* rows of a streams_config.json that is loaded

(***************************************************************************)
(* Strings are sequences of one-character strings, so that formatting and  *)
(* parsing of the schedule field are computed, not assumed.                *)
(***************************************************************************)
Digits == <<"0", "1", "2", "3", "4", "5", "6", "7", "8", "9">>

DigitChar(n) == Digits[n + 1]

IsDigit(c) == \E i \in 1..10 : Digits[i] = c

DigitVal(c) == (CHOOSE i \in 1..10 : Digits[i] = c) - 1

NOW == <<"N", "O", "W">>

WIB == <<" ", "W", "I", "B">>

NaNStr == <<"nan">>

HoursPerDay == 24

MinutesPerHour == 60

MinutesPerDay == HoursPerDay * MinutesPerHour

\* datetime .hour and .minute of an instant counted in minutes
HourOf(t) == (t \div MinutesPerHour) % HoursPerDay

MinuteOf(t) == t % MinutesPerHour

\* strftime('%H:%M'): two zero-padded digits each
StrfHM(t) ==
    << DigitChar(HourOf(t) \div 10), DigitChar(HourOf(t) % 10), ":",
       DigitChar(MinuteOf(t) \div 10), DigitChar(MinuteOf(t) % 10) >>

\* format_jakarta_time: strftime('%H:%M WIB')
format_jakarta_time(t) == StrfHM(t) \o WIB

HasPrefix(s, p) == Len(s) >= Len(p) /\ SubSeq(s, 1, Len(p)) = p

\* str.replace(p, ''): every non-overlapping occurrence, left to right
RECURSIVE StrRemove(_, _)
StrRemove(s, p) ==
    IF s = <<>> THEN <<>>
    ELSE IF HasPrefix(s, p) THEN StrRemove(SubSeq(s, Len(p) + 1, Len(s)), p)
    ELSE <<Head(s)>> \o StrRemove(Tail(s), p)

\* str.split(c)
RECURSIVE StrSplit(_, _)
StrSplit(s, c) ==
    IF \A i \in 1..Len(s) : s[i] # c THEN <<s>>
    ELSE LET k == CHOOSE i \in 1..Len(s) :
                     s[i] = c /\ \A j \in 1..(i - 1) : s[j] # c
         IN  <<SubSeq(s, 1, k - 1)>> \o StrSplit(SubSeq(s, k + 1, Len(s)), c)

\* int(s) on the parts of a schedule: ValueError unless s is a non-empty run
\* of digits (the blanks and the sign int() also accepts are never written)
IntOk(s) == s # <<>> /\ \A i \in 1..Len(s) : IsDigit(s[i])

RECURSIVE IntVal(_)
IntVal(s) ==
    IF s = <<>> THEN 0
    ELSE 10 * IntVal(SubSeq(s, 1, Len(s) - 1)) + DigitVal(s[Len(s)])

\* lines 615-617: the parts of a schedule string; ok = no exception raised
\* ParseSchedule that reads a schedule it cannot parse as 00:00
ParseScheduleLenient(start_time) ==
    IF start_time = NaNStr
    THEN [ok |-> TRUE, hour |-> 0, minute |-> 0]
    ELSE LET scheduled_parts == StrSplit(StrRemove(start_time, WIB), ":")
         IN  IF Len(scheduled_parts) >= 2 /\ IntOk(scheduled_parts[1])
                                          /\ IntOk(scheduled_parts[2])
             THEN [ok     |-> TRUE,
                   hour   |-> IntVal(scheduled_parts[1]),
                   minute |-> IntVal(scheduled_parts[2])]
             ELSE [ok |-> TRUE, hour |-> 0, minute |-> 0]

ParseSchedule(start_time) ==
    IF start_time = NaNStr
    THEN [ok |-> FALSE, hour |-> 0, minute |-> 0]
    ELSE LET scheduled_parts == StrSplit(StrRemove(start_time, WIB), ":")
         IN  IF Len(scheduled_parts) >= 2 /\ IntOk(scheduled_parts[1])
                                          /\ IntOk(scheduled_parts[2])
             THEN [ok     |-> TRUE,
                   hour   |-> IntVal(scheduled_parts[1]),
                   minute |-> IntVal(scheduled_parts[2])]
             ELSE [ok |-> FALSE, hour |-> 0, minute |-> 0]

\* TimeReached without the test that the hour is the scheduled hour: a
\* stream would start in any hour once the minute is reached
MinuteReached(current_hour, current_minute, scheduled_hour, scheduled_minute) ==
    \/ current_hour > scheduled_hour
    \/ current_minute >= scheduled_minute

\* lines 624-625
TimeReached(current_hour, current_minute, scheduled_hour, scheduled_minute) ==
    \/ current_hour > scheduled_hour
    \/ current_hour = scheduled_hour /\ current_minute >= scheduled_minute

\* ShouldStart with the scheduled minute itself taken as too early
ShouldStartAfterTheMinute(start_time, t) ==
    IF start_time = NOW THEN TRUE
    ELSE LET p == ParseSchedule(start_time)
         IN  p.ok /\ \/ HourOf(t) > p.hour
                     \/ HourOf(t) = p.hour /\ MinuteOf(t) > p.minute

\* lines 603 and 613-625: does the tick call start_stream for this schedule
ShouldStart(start_time, t) ==
    IF start_time = NOW THEN TRUE
    ELSE LET p == ParseSchedule(start_time)
         IN  p.ok /\ TimeReached(HourOf(t), MinuteOf(t), p.hour, p.minute)

(***************************************************************************)
(* The registry: a DataFrame, modelled as the sequence of its rows in      *)
(* order, each row carrying its index label idx.  uid, added and target    *)
(* are not columns: uid names the record a row was created as, so that     *)
(* properties can follow a record while its label changes, added is the    *)
(* instant it was created and target the instant its schedule was chosen   *)
(* to mean (-1 for NOW).  Columns that pandas leaves as NaN are "NaN"      *)
(* (NaNStr for the schedule, NaNPid for the PID).                          *)
(***************************************************************************)
Waiting  == "Menunggu"

Running  == "Sedang Live"

Stopped  == "Dihentikan"

Finished == "Selesai"

NaNPid == -1

\* lines 978-988 (add_stream_form) and 896-906 (quick_add_form)
NewStream(video, schedule_time, broadcast_id, uid, added, target) ==
    [idx |-> 0, Video |-> video, StreamingKey |-> "key",
     JamMulai |-> schedule_time, Status |-> Waiting, PID |-> 0,
     IsShorts |-> "False", Quality |-> "720p", BroadcastID |-> broadcast_id,
     Channel |-> "default", uid |-> uid, added |-> added, target |-> target]

\* the row pandas creates when .loc assigns to a label that is not present
NaNRow(label) ==
    [idx |-> label, Video |-> "NaN", StreamingKey |-> "NaN",
     JamMulai |-> NaNStr, Status |-> "NaN", PID |-> NaNPid,
     IsShorts |-> "NaN", Quality |-> "NaN", BroadcastID |-> "NaN",
     Channel |-> "NaN", uid |-> 0, added |-> -1, target |-> -1]

Labels(df) == {df[k].idx : k \in 1..Len(df)}

HasLabel(df, label) == label \in Labels(df)

PosOf(df, label) == CHOOSE k \in 1..Len(df) : df[k].idx = label

\* df.loc[label] for reading (KeyError when the label is absent)
Loc(df, label) == df[PosOf(df, label)]

\* df.loc[label, col] = val: in place, or setting with enlargement
SetLoc(df, label, col, val) ==
    IF HasLabel(df, label)
    THEN [df EXCEPT ![PosOf(df, label)] = [@ EXCEPT ![col] = val]]
    ELSE Append(df, [NaNRow(label) EXCEPT ![col] = val])

\* df.drop(label)
Drop(df, label) == SelectSeq(df, LAMBDA r : r.idx # label)

\* df.reset_index(drop=True)
ResetIndex(df) == [k \in 1..Len(df) |-> [df[k] EXCEPT !.idx = k - 1]]

\* pd.concat([df, new_stream], ignore_index=True)
Concat(df, row) == ResetIndex(Append(df, row))

\* save_stream_config: to_dict('records') drops the index labels; the file
\* holds the rows in order (a row's idx in the file is its position)
save_stream_config(df) == ResetIndex(df)

\* line 390: streams_df.to_dict('records'), the rows without their labels
to_dict(df) == ResetIndex(df)

\* streams_config.json after open(..., 'w') at line 394 and before json.dump
\* at line 395 has written it: the file is empty, or holds a part of the text
Truncated == << [partial |-> TRUE] >>

\* Python truthiness of a Broadcast ID cell ('' is false, NaN is true)
Truthy(broadcast_id) == broadcast_id # ""

(***************************************************************************)
(* State.                                                                  *)
(***************************************************************************)
VARIABLES
    streams,     \* st.session_state.streams
    processes,   \* st.session_state.processes: stream_index -> pid of handle
    disk,        \* the 'streams' list of streams_config.json
    procs,       \* every encoder launched so far, by pid, with its threads
    files,       \* media files that exist
    now,         \* wall clock in minutes
    script,      \* the script thread: position and locals
    nuid,        \* number of records created so far
    stopped      \* the stop_stream calls made in a row on one record

vars == <<streams, processes, disk, procs, files, now, script, nuid, stopped>>

\* the script thread between two runs.  Its locals: snap, the copy of the
\* registry a loop iterates, and i, the position in it; tnow, the time the
\* tick read; idx, the index label a handler works on; ret, the caller of
\* stop_stream; proc, the process of run_ffmpeg or stop_stream, and bc, the
\* broadcast_id of stop_stream; streams_data, the rows save_stream_config
\* is about to write (ret stays "delete" until the row is dropped).
\* Not in the code:
\* called, the records the tick called start_stream for; uid, the record a
\* stop is about; live, whether stop_stream found a handle to a live encoder
Idle == [pc |-> "idle", i |-> 0, snap |-> <<>>, tnow |-> 0, idx |-> 0,
         ret |-> "none", proc |-> 0, bc |-> "", called |-> {}, uid |-> 0,
         live |-> FALSE, streams_data |-> <<>>]

NoStop == [uid |-> 0, calls |-> 0, excs |-> 0, live |-> FALSE,
           result |-> "none"]

Pids == 1..Len(procs)

Live == {p \in Pids : procs[p].alive}

HasKey(i) == i \in DOMAIN processes

PutKey(f, i, p) == [k \in DOMAIN f \cup {i} |-> IF k = i THEN p ELSE f[k]]

DelKey(f, i) == [k \in DOMAIN f \ {i} |-> f[k]]

\* the media file of the model
Video == "a.mp4"

\* the clock when the program starts: 08:59
StartOfDay == 8 * MinutesPerHour + 59

\* lines 430-434: the registry is loaded, the process map is empty
Init ==
    /\ disk = <<>>
    /\ streams = disk
    /\ processes = << >>
    /\ procs = <<>>
    /\ files = {Video}
    /\ now = StartOfDay
    /\ script = Idle
    /\ nuid = 0
    /\ stopped = NoStop

(***************************************************************************)
(* start_stream / run_ffmpeg                                               *)
(***************************************************************************)
\* lines 465-471: resolution, bitrate in kbit/s, frames per second
Profiles == {"240p", "360p", "480p", "720p", "1080p"}

quality_settings ==
    [q \in Profiles |->
        CASE q = "240p"  -> [resolution |-> "426x240",   bitrate |-> 400,  fps |-> 24]
          [] q = "360p"  -> [resolution |-> "640x360",   bitrate |-> 800,  fps |-> 24]
          [] q = "480p"  -> [resolution |-> "854x480",   bitrate |-> 1200, fps |-> 30]
          [] q = "720p"  -> [resolution |-> "1280x720",  bitrate |-> 2500, fps |-> 30]
          [] q = "1080p" -> [resolution |-> "1920x1080", bitrate |-> 4500, fps |-> 30]]

\* line 473: quality_settings.get(quality, quality_settings['720p'])
settings(quality) ==
    IF quality \in Profiles THEN quality_settings[quality]
                            ELSE quality_settings["720p"]

\* lines 476-497: the options of the ffmpeg command that depend on the
\* quality, and those of the keyframes
cmd(quality) ==
    [b_v          |-> settings(quality).bitrate,
     maxrate      |-> settings(quality).bitrate,
     bufsize      |-> settings(quality).bitrate * 2,
     s            |-> settings(quality).resolution,
     r            |-> settings(quality).fps,
     g            |-> 60,
     keyint_min   |-> 60,
     sc_threshold |-> 0]

\* lines 476-511 after a successful Popen: the handle is stored under
\* stream_index, PID and Status are written; no thread of the launch runs yet
LaunchStore(stream_index, broadcast_id, uid, quality) ==
    LET pid == Len(procs) + 1
    IN  /\ processes' = PutKey(processes, stream_index, pid)
        /\ streams' = SetLoc(SetLoc(streams, stream_index, "PID", pid),
                             stream_index, "Status", Running)
        /\ procs' = Append(procs,
              [alive |-> TRUE, stream_index |-> stream_index,
               broadcast_id |-> broadcast_id, uid |-> uid,
               cmd |-> cmd(quality),
               wpc |-> "none", glpc |-> "none",
               own |-> FALSE, terminates |-> 0, kills |-> 0,
               completes |-> 0, golives |-> 0, failed |-> {},
               streams_data |-> <<>>])
        /\ UNCHANGED disk

\* MediaExists without the look at the file system
MediaNotLookedFor(video_path) == TRUE

\* line 555: os.path.exists(video_path)
MediaExists(video_path) == video_path \in files

\* the value start_stream returns; popen_ok is whether subprocess.Popen
\* succeeds (it raises when the encoder cannot be executed)
StartResult(row, popen_ok) == MediaExists(row.Video) /\ popen_ok

\* start_stream with the handle, the PID and the status stored whether or
\* not the encoder could be executed
StartStoresAnyway(row, popen_ok) ==
    IF MediaExists(row.Video)
    THEN LaunchStore(row.idx, row.BroadcastID, row.uid, row.Quality)
    ELSE UNCHANGED <<streams, processes, disk, procs>>

\* start_stream (553-559) with run_ffmpeg (461-511, 549-551) for the row
start_stream(row, popen_ok) ==
    IF StartResult(row, popen_ok)
    THEN LaunchStore(row.idx, row.BroadcastID, row.uid, row.Quality)
    ELSE UNCHANGED <<streams, processes, disk, procs>>

(***************************************************************************)
(* The script thread.  A run starts with check_scheduled_streams (712),    *)
(* then draws the forms and the stream cards; at most one widget handler   *)
(* runs in a run.                                                          *)
(***************************************************************************)
\* get_jakarta_time (22-25): a reading of the clock, never before the last
get_jakarta_time(samples, t) == t \in samples /\ t >= now /\ now' = t

\* TickTakes without the test of the status
TickTakesAnyStatus(row, t) == ShouldStart(row.JamMulai, t)

\* lines 599-625: the tick calls start_stream for a row that is waiting and
\* whose time has come
TickTakes(row, t) == row.Status = Waiting /\ ShouldStart(row.JamMulai, t)

\* lines 598-625: the next row at or after position k of the copy that
\* iterrows() iterates which the tick takes; rows that are not waiting, not
\* due, or whose schedule does not parse are passed
RECURSIVE NextDue(_, _, _)
NextDue(snap, k, t) ==
    IF k > Len(snap) THEN k
    ELSE IF TickTakes(snap[k], t) THEN k
         ELSE NextDue(snap, k + 1, t)

\* the loop of check_scheduled_streams moves on to position k; past the last
\* row the script goes on to the forms and to the stream cards (999), which
\* iterate a copy of the registry as it is then
TickGoto(sc, k, df) ==
    LET n == NextDue(sc.snap, k, sc.tnow)
    IN  IF n <= Len(sc.snap)
        THEN [sc EXCEPT !.pc = "tick", !.i = n, !.idx = 0]
        ELSE [Idle EXCEPT !.pc = "ui", !.snap = df, !.tnow = sc.tnow,
                          !.called = sc.called]

\* lines 595-598: a run begins (first run, st.rerun(), or a run in which no
\* widget was used is followed by the next)
BeginRun(samples) ==
    /\ script.pc \in {"idle", "ui"}
    /\ \E t \in samples :
         /\ get_jakarta_time(samples, t)
         /\ script' = TickGoto([Idle EXCEPT !.snap = streams, !.tnow = t],
                               1, streams)
    /\ UNCHANGED <<streams, processes, disk, procs, files, nuid, stopped>>

\* TickRow that takes a row whose start failed out of the schedule
TickRowGivesUp ==
    /\ script.pc = "tick"
    /\ Len(procs) < MaxProcs
    /\ LET row == script.snap[script.i]
       IN  \E popen_ok \in BOOLEAN :
             IF StartResult(row, popen_ok)
             THEN /\ start_stream(row, popen_ok)
                  /\ script' = [script EXCEPT !.pc = "tick_launch",
                                              !.idx = row.idx,
                                              !.proc = Len(procs) + 1,
                                              !.called = @ \cup {row.uid}]
             ELSE /\ streams' = SetLoc(streams, row.idx, "Status", Stopped)
                  /\ UNCHANGED <<processes, disk, procs>>
                  /\ script' = TickGoto([script EXCEPT
                                           !.called = @ \cup {row.uid}],
                                        script.i + 1, streams)
    /\ UNCHANGED <<files, now, nuid, stopped>>

\* lines 603-607 and 627-630: start_stream for a waiting row that is due
TickRow ==
    /\ script.pc = "tick"
    /\ Len(procs) < MaxProcs
    /\ LET row == script.snap[script.i]
       IN  \E popen_ok \in BOOLEAN :
             /\ start_stream(row, popen_ok)
             /\ script' = IF StartResult(row, popen_ok)
                          THEN [script EXCEPT !.pc = "tick_launch",
                                              !.idx = row.idx,
                                              !.proc = Len(procs) + 1,
                                              !.called = @ \cup {row.uid}]
                          ELSE TickGoto([script EXCEPT
                                           !.called = @ \cup {row.uid}],
                                        script.i + 1, streams)
    /\ UNCHANGED <<files, now, nuid, stopped>>

\* run_ffmpeg between the stores and its return
Launching == {"tick_launch", "manual_launch"}

\* LaunchReturn that starts the go-live thread whatever the broadcast_id
LaunchReturnAlwaysGoesLive ==
    /\ script.pc \in Launching
    /\ disk' = save_stream_config(streams)
    /\ procs' = [procs EXCEPT ![script.proc] =
                    [@ EXCEPT !.wpc = "communicate", !.glpc = "sleep"]]
    /\ script' = [script EXCEPT !.pc = IF script.pc = "tick_launch"
                                       THEN "tick_started"
                                       ELSE "manual_started"]
    /\ UNCHANGED <<streams, processes, files, now, nuid, stopped>>

\* lines 512-547: the registry is saved, the go-live thread (only for a
\* truthy broadcast_id) and the watcher are started, run_ffmpeg returns True
LaunchReturn ==
    /\ script.pc \in Launching
    /\ disk' = save_stream_config(streams)
    /\ procs' = [procs EXCEPT ![script.proc] =
                    [@ EXCEPT !.wpc = "communicate",
                              !.glpc =
                                  IF Truthy(procs[script.proc].broadcast_id)
                                  THEN "sleep" ELSE "none"]]
    /\ script' = [script EXCEPT !.pc = IF script.pc = "tick_launch"
                                       THEN "tick_started"
                                       ELSE "manual_started"]
    /\ UNCHANGED <<streams, processes, files, now, nuid, stopped>>

\* TickStarted that leaves the schedule field as it was
TickStartedKeepsSchedule ==
    /\ script.pc = "tick_started"
    /\ disk' = save_stream_config(streams)
    /\ script' = TickGoto(script, script.i + 1, streams)
    /\ UNCHANGED <<streams, processes, procs, files, now, nuid, stopped>>

\* lines 608-609 and 631-632: the schedule field becomes the tick's time
TickStarted ==
    /\ script.pc = "tick_started"
    /\ LET df == SetLoc(streams, script.idx, "JamMulai",
                        format_jakarta_time(script.tnow))
       IN  /\ streams' = df
           /\ disk' = save_stream_config(df)
           /\ script' = TickGoto(script, script.i + 1, df)
    /\ UNCHANGED <<processes, procs, files, now, nuid, stopped>>

(***************************************************************************)
(* The add forms (886-911 and 917-993).                                    *)
(***************************************************************************)
\* a schedule option of the forms: NOW, PLUS arg minutes (5, 15, 30), or
\* CUSTOM with arg a time of day in minutes since midnight
ScheduleOption(kind, arg) == [kind |-> kind, arg |-> arg]

\* the instant an option chosen at time t stands for (a time of day that is
\* not later than t today means tomorrow); -1 for NOW
TargetOf(opt, t) ==
    CASE opt.kind = "NOW"    -> -1
      [] opt.kind = "PLUS"   -> t + opt.arg
      [] opt.kind = "CUSTOM" ->
            LET today == (t \div MinutesPerDay) * MinutesPerDay + opt.arg
            IN  IF today > t THEN today ELSE today + MinutesPerDay

\* lines 960-976: schedule_time of add_stream_form ('%H:%M WIB')
schedule_time(opt, t) ==
    CASE opt.kind = "NOW"    -> NOW
      [] opt.kind = "PLUS"   -> format_jakarta_time(t + opt.arg)
      [] opt.kind = "CUSTOM" -> format_jakarta_time(opt.arg)

\* lines 836-850: time_str kept in last_broadcast ('%H:%M', no suffix)
time_str(opt, t) ==
    CASE opt.kind = "NOW"    -> NOW
      [] opt.kind = "PLUS"   -> StrfHM(t + opt.arg)
      [] opt.kind = "CUSTOM" -> StrfHM(opt.arg)

\* lines 908-911 and 990-993
AddRow(row) ==
    /\ script.pc = "ui"
    /\ Len(streams) < MaxStreams
    /\ nuid < MaxUid
    /\ LET df == Concat(streams, row)
       IN  /\ streams' = df
           /\ disk' = save_stream_config(df)
    /\ nuid' = nuid + 1
    /\ script' = Idle
    /\ UNCHANGED <<processes, procs, files, stopped>>

\* add_stream_form handler, lines 935 and 958-993: Broadcast ID is ''
AddStream(samples, options) ==
    \E t \in samples, video \in files :
      \E opt \in options[t] :
        /\ get_jakarta_time(samples, t)
        /\ AddRow(NewStream(video, schedule_time(opt, t), "", nuid + 1, t,
                            TargetOf(opt, t)))

\* quick_add_form handler, lines 895-911: key, schedule and Broadcast ID
\* come from the broadcast created last (813, 833-872)
QuickAdd(samples, options) ==
    \E t \in samples, video \in files :
      \E opt \in options[t] :
        /\ get_jakarta_time(samples, t)
        /\ AddRow(NewStream(video, time_str(opt, t), "bc", nuid + 1, t,
                            TargetOf(opt, t)))

(***************************************************************************)
(* The stream cards (999-1058).  A button is drawn from the copied row.    *)
(***************************************************************************)
\* lines 1036-1041: "Start Now" on a waiting row calls start_stream
ManualStart ==
    /\ script.pc = "ui"
    /\ Len(procs) < MaxProcs
    /\ \E k \in 1..Len(script.snap), popen_ok \in BOOLEAN :
         LET row == script.snap[k]
         IN  /\ row.Status = Waiting
             /\ start_stream(row, popen_ok)
             /\ script' = IF StartResult(row, popen_ok)
                          THEN [Idle EXCEPT !.pc = "manual_launch",
                                            !.idx = row.idx,
                                            !.proc = Len(procs) + 1]
                          ELSE Idle
    /\ UNCHANGED <<files, now, nuid, stopped>>

\* lines 1042-1045
ManualStarted(samples) ==
    /\ script.pc = "manual_started"
    /\ \E t \in samples :
         /\ get_jakarta_time(samples, t)
         /\ LET df == SetLoc(SetLoc(streams, script.idx, "Status", Running),
                             script.idx, "JamMulai", format_jakarta_time(t))
            IN  /\ streams' = df
                /\ disk' = save_stream_config(df)
    /\ script' = Idle
    /\ UNCHANGED <<processes, procs, files, nuid, stopped>>

\* lines 1047-1049: "Stop Stream" on a running row calls stop_stream(idx)
StopButton ==
    /\ script.pc = "ui"
    /\ \E k \in 1..Len(script.snap) :
         LET row == script.snap[k]
         IN  /\ row.Status = Running
             /\ row.uid = stopped.uid => stopped.calls < MaxStopCalls
             /\ script' = [Idle EXCEPT !.pc = "stop_stream",
                                       !.idx = row.idx, !.ret = "stop",
                                       !.uid = row.uid]
    /\ UNCHANGED <<streams, processes, disk, procs, files, now, nuid, stopped>>

\* lines 1053-1055: "Delete" calls stop_stream(idx) first on a running row
DeleteButton ==
    /\ script.pc = "ui"
    /\ \E k \in 1..Len(script.snap) :
         LET row == script.snap[k]
         IN  script' = [Idle EXCEPT
                          !.pc = IF row.Status = Running
                                 THEN "stop_stream" ELSE "delete_drop",
                          !.ret = IF row.Status = Running
                                  THEN "delete" ELSE "none",
                          !.idx = row.idx, !.uid = row.uid]
    /\ UNCHANGED <<streams, processes, disk, procs, files, now, nuid, stopped>>

\* lines 1056-1058
DeleteDrop ==
    /\ script.pc = "delete_drop"
    /\ LET df == ResetIndex(Drop(streams, script.idx))
       IN  /\ streams' = df
           /\ disk' = save_stream_config(df)
    /\ script' = Idle
    /\ UNCHANGED <<processes, procs, files, now, nuid, stopped>>

(***************************************************************************)
(* stop_stream (561-591), statement by statement.  It returns True, False  *)
(* (the except branch, after an exception was raised inside) or None (no   *)
(* handle under stream_index).                                             *)
(***************************************************************************)
\* the return to the caller: line 1049-1050 (rerun on True, else the run
\* goes on and ends) or line 1056
StopReturn(value) ==
    /\ stopped' = LET s == IF stopped.uid = script.uid THEN stopped
                           ELSE [NoStop EXCEPT !.uid = script.uid,
                                               !.live = script.live]
                  IN  [s EXCEPT !.calls = @ + 1,
                                !.excs = @ + (IF value = "False" THEN 1 ELSE 0),
                                !.result = value]
    /\ script' = IF script.ret = "delete"
                 THEN [Idle EXCEPT !.pc = "delete_drop", !.idx = script.idx,
                                   !.ret = "delete", !.uid = script.uid]
                 ELSE Idle

\* stop_stream that raises when there is no handle under stream_index
StopNoHandleRaises == StopReturn("False") /\ UNCHANGED procs

\* lines 564 and 591: no handle under stream_index, the function ends and
\* returns None
StopNoHandle == StopReturn("None") /\ UNCHANGED procs

\* lines 564-573: the lookups, SIGTERM, then the two seconds of sleep
StopTerminate ==
    /\ script.pc = "stop_stream"
    /\ IF ~HasKey(script.idx)
       THEN StopNoHandle
       ELSE IF ~HasLabel(streams, script.idx)
       THEN StopReturn("False") /\ UNCHANGED procs
       ELSE /\ script' = [script EXCEPT
                            !.pc = "stop_poll",
                            !.proc = processes[script.idx],
                            !.bc = Loc(streams, script.idx).BroadcastID,
                            !.live = procs[processes[script.idx]].alive]
            /\ procs' = [procs EXCEPT ![processes[script.idx]] =
                            [@ EXCEPT !.terminates = @ + 1]]
            /\ UNCHANGED stopped
    /\ UNCHANGED <<streams, processes, disk, files, now, nuid>>

\* StopPoll that kills without looking whether the process has ended
StopPollKillsAnyway ==
    /\ script.pc = "stop_poll"
    /\ procs' = [procs EXCEPT ![script.proc] =
                    [@ EXCEPT !.alive = FALSE, !.kills = @ + 1]]
    /\ script' = [script EXCEPT !.pc = "stop_del"]
    /\ UNCHANGED <<streams, processes, disk, files, now, nuid, stopped>>

\* lines 575-576
StopPoll ==
    /\ script.pc = "stop_poll"
    /\ procs' = IF procs[script.proc].alive
                THEN [procs EXCEPT ![script.proc] =
                         [@ EXCEPT !.alive = FALSE, !.kills = @ + 1]]
                ELSE procs
    /\ script' = [script EXCEPT !.pc = "stop_del"]
    /\ UNCHANGED <<streams, processes, disk, files, now, nuid, stopped>>

\* line 579: KeyError when the key is gone
StopDel ==
    /\ script.pc = "stop_del"
    /\ IF HasKey(script.idx)
       THEN /\ processes' = DelKey(processes, script.idx)
            /\ script' = [script EXCEPT !.pc = "stop_set"]
            /\ UNCHANGED stopped
       ELSE /\ StopReturn("False")
            /\ UNCHANGED processes
    /\ UNCHANGED <<streams, disk, procs, files, now, nuid>>

\* lines 580-585
StopSet ==
    /\ script.pc = "stop_set"
    /\ LET df == SetLoc(SetLoc(streams, script.idx, "Status", Stopped),
                        script.idx, "PID", 0)
       IN  /\ streams' = df
           /\ disk' = save_stream_config(df)
    /\ IF Truthy(script.bc)
       THEN /\ script' = [script EXCEPT !.pc = "stop_complete"]
            /\ UNCHANGED stopped
       ELSE StopReturn("True")
    /\ UNCHANGED <<processes, procs, files, now, nuid>>

\* a call to the provider: it returns (True, message), or (False, message)
\* after an error of the service (299, 306, 316-317); failed keeps the calls
\* of a launch that returned False
Provider(p, call, ok) ==
    [procs[p] EXCEPT !.failed = IF ok THEN @ ELSE @ \cup {call}]

\* StopComplete with a failure of the provider raised out of stop_stream
\* after the status was taken back
StopCompleteRollsBack ==
    /\ script.pc = "stop_complete"
    /\ \E ok \in BOOLEAN :
         /\ procs' = [procs EXCEPT ![script.proc] =
                         [Provider(script.proc, "stop", ok)
                            EXCEPT !.completes = @ + 1]]
         /\ IF ok
            THEN StopReturn("True") /\ UNCHANGED <<streams, disk>>
            ELSE /\ StopReturn("False")
                 /\ streams' = SetLoc(streams, script.idx, "Status", Running)
                 /\ disk' = save_stream_config(streams')
    /\ UNCHANGED <<processes, files, now, nuid>>

\* lines 586-588: stop_youtube_broadcast; its outcome is ignored
StopComplete ==
    /\ script.pc = "stop_complete"
    /\ \E ok \in BOOLEAN :
         procs' = [procs EXCEPT ![script.proc] =
                      [Provider(script.proc, "stop", ok)
                         EXCEPT !.completes = @ + 1]]
    /\ StopReturn("True")
    /\ UNCHANGED <<streams, processes, disk, files, now, nuid>>

(***************************************************************************)
(* The threads of a launch.                                                *)
(***************************************************************************)
\* the encoder ends: end of input, an error, or a signal it received; own
\* records that it ended before any signal was sent to it
ProcExit(p) ==
    /\ procs[p].alive
    /\ procs' = [procs EXCEPT ![p] =
                    [@ EXCEPT !.alive = FALSE,
                              !.own = (procs[p].terminates = 0)]]
    /\ UNCHANGED <<streams, processes, disk, files, now, script, nuid, stopped>>

\* lines 530-531: communicate() returns, the key is looked up
WatchCheck(p) ==
    /\ procs[p].wpc = "communicate"
    /\ ~procs[p].alive
    /\ procs' = [procs EXCEPT ![p] = [@ EXCEPT !.wpc =
                    IF HasKey(procs[p].stream_index) THEN "del" ELSE "done"]]
    /\ UNCHANGED <<streams, processes, disk, files, now, script, nuid, stopped>>

\* WatchDel that goes on when the key is gone
WatchDelNoKeyError(p) ==
    /\ procs[p].wpc = "del"
    /\ processes' = IF HasKey(procs[p].stream_index)
                    THEN DelKey(processes, procs[p].stream_index)
                    ELSE processes
    /\ procs' = [procs EXCEPT ![p] = [@ EXCEPT !.wpc = "set"]]
    /\ UNCHANGED <<streams, disk, files, now, script, nuid, stopped>>

\* line 532: KeyError (caught at 541) when the key is gone
WatchDel(p) ==
    /\ procs[p].wpc = "del"
    /\ IF HasKey(procs[p].stream_index)
       THEN /\ processes' = DelKey(processes, procs[p].stream_index)
            /\ procs' = [procs EXCEPT ![p] = [@ EXCEPT !.wpc = "set"]]
       ELSE /\ procs' = [procs EXCEPT ![p] = [@ EXCEPT !.wpc = "done"]]
            /\ UNCHANGED processes
    /\ UNCHANGED <<streams, disk, files, now, script, nuid, stopped>>

\* lines 533-535
WatchSet(p) ==
    /\ procs[p].wpc = "set"
    /\ LET df == SetLoc(SetLoc(streams, procs[p].stream_index,
                               "Status", Finished),
                        procs[p].stream_index, "PID", 0)
       IN  /\ streams' = df
           /\ disk' = save_stream_config(df)
    /\ procs' = [procs EXCEPT ![p] = [@ EXCEPT !.wpc =
                    IF Truthy(procs[p].broadcast_id) THEN "complete"
                                                     ELSE "done"]]
    /\ UNCHANGED <<processes, files, now, script, nuid, stopped>>

\* lines 538-539: stop_youtube_broadcast; its outcome is ignored
WatchComplete(p) ==
    /\ procs[p].wpc = "complete"
    /\ \E ok \in BOOLEAN :
         procs' = [procs EXCEPT ![p] =
                      [Provider(p, "exit", ok)
                         EXCEPT !.wpc = "done", !.completes = @ + 1]]
    /\ UNCHANGED <<streams, processes, disk, files, now, script, nuid, stopped>>

\* lines 516-522: after the sleep, start_youtube_broadcast; outcome printed
GoLive(p) ==
    /\ procs[p].glpc = "sleep"
    /\ \E ok \in BOOLEAN :
         procs' = [procs EXCEPT ![p] =
                      [Provider(p, "golive", ok)
                         EXCEPT !.glpc = "done", !.golives = @ + 1]]
    /\ UNCHANGED <<streams, processes, disk, files, now, script, nuid, stopped>>

(***************************************************************************)
(* save_stream_config (387-398), statement by statement: the rows are      *)
(* taken with to_dict, the file is opened for writing, which empties it,   *)
(* then the text is written.                                               *)
(***************************************************************************)
\* lines 533-535 with 390-394: the watcher's update, up to the open
WatchSetOpen(p) ==
    /\ procs[p].wpc = "set"
    /\ LET df == SetLoc(SetLoc(streams, procs[p].stream_index,
                               "Status", Finished),
                        procs[p].stream_index, "PID", 0)
       IN  /\ streams' = df
           /\ disk' = Truncated
           /\ procs' = [procs EXCEPT ![p] =
                           [@ EXCEPT !.wpc = "save_dump",
                                     !.streams_data = to_dict(df)]]
    /\ UNCHANGED <<processes, files, now, script, nuid, stopped>>

\* line 395 in the watcher: json.dump writes the rows taken at line 390
WatchDump(p) ==
    /\ procs[p].wpc = "save_dump"
    /\ disk' = procs[p].streams_data
    /\ procs' = [procs EXCEPT ![p] =
                    [@ EXCEPT !.streams_data = <<>>, !.wpc =
                        IF Truthy(procs[p].broadcast_id) THEN "complete"
                                                         ELSE "done"]]
    /\ UNCHANGED <<streams, processes, files, now, script, nuid, stopped>>

\* lines 958-991 with 390-394: add_stream_form, up to the open
AddStreamOpen(samples, options) ==
    /\ script.pc = "ui"
    /\ Len(streams) < MaxStreams
    /\ nuid < MaxUid
    /\ \E t \in samples, video \in files :
         \E opt \in options[t] :
           /\ get_jakarta_time(samples, t)
           /\ LET df == Concat(streams,
                               NewStream(video, schedule_time(opt, t), "",
                                         nuid + 1, t, TargetOf(opt, t)))
              IN  /\ streams' = df
                  /\ disk' = Truncated
                  /\ script' = [Idle EXCEPT !.pc = "save_dump",
                                            !.streams_data = to_dict(df)]
    /\ nuid' = nuid + 1
    /\ UNCHANGED <<processes, procs, files, stopped>>

\* line 395 on the script thread, then st.rerun() (993)
SaveDump ==
    /\ script.pc = "save_dump"
    /\ disk' = script.streams_data
    /\ script' = Idle
    /\ UNCHANGED <<streams, processes, procs, files, now, nuid, stopped>>

(***************************************************************************)
(* The environment.                                                        *)
(***************************************************************************)
\* the media file is removed from, or put back into, the videos folder
\* between two runs
FileChange ==
    /\ script.pc = "idle"
    /\ files' = IF Video \in files THEN files \ {Video} ELSE files \cup {Video}
    /\ UNCHANGED <<streams, processes, disk, procs, now, script, nuid, stopped>>

(***************************************************************************)
(* Specifications.                                                         *)
(***************************************************************************)
\* the watcher thread of a launch (528-535), and its call to the provider
\* (538-539), which only the watcher of a stream with a broadcast makes
Watcher ==
    \/ \E p \in Pids : WatchCheck(p)
    \/ \E p \in Pids : WatchDel(p)
    \/ \E p \in Pids : WatchSet(p)

Completes == \E p \in Pids : WatchComplete(p)

Exit == \E p \in Pids : ProcExit(p)

GoesLive == \E p \in Pids : GoLive(p)

\* Supervision: every handler of the stream cards against the watchers of
\* the launches.  The clock stays within 08:59; streams are added with the
\* quick form, for a broadcast that starts NOW (a stream whose launch failed
\* keeps waiting).
ClockSamples == { StartOfDay }

AddOptions == [t \in ClockSamples |-> { ScheduleOption("NOW", 0) }]

Next ==
    \/ BeginRun(ClockSamples) \/ TickRow \/ LaunchReturn \/ TickStarted
    \/ QuickAdd(ClockSamples, AddOptions)
    \/ ManualStart \/ ManualStarted(ClockSamples)
    \/ StopButton \/ DeleteButton \/ DeleteDrop
    \/ StopTerminate \/ StopPoll \/ StopDel \/ StopSet \/ StopComplete
    \/ Exit \/ Watcher \/ Completes

Spec == Init /\ [][Next]_vars

\* The tick's decision over a day, with both add forms.  The clock is read
\* at 08:59, 09:00, 10:30 and 23:59; a stream is scheduled for NOW, for five
\* minutes later or for 09:00.
DueSamples ==
    { StartOfDay, 9 * MinutesPerHour, 10 * MinutesPerHour + 30,
      MinutesPerDay - 1 }

DueOptions ==
    [t \in DueSamples |->
        { ScheduleOption("NOW", 0), ScheduleOption("PLUS", 5),
          ScheduleOption("CUSTOM", 9 * MinutesPerHour) }]

QuickOptions ==
    [t \in DueSamples |->
        { ScheduleOption("NOW", 0),
          ScheduleOption("CUSTOM", 9 * MinutesPerHour) }]

NextDueSpec ==
    \/ BeginRun(DueSamples) \/ TickRow \/ LaunchReturn \/ TickStarted
    \/ AddStream(DueSamples, DueOptions)
    \/ QuickAdd(DueSamples, QuickOptions)

SpecDue == Init /\ [][NextDueSpec]_vars

\* One minute ahead: every stream is added, with either form, with the
\* custom time of the minute after the one it is added in; the go-live
\* thread of a launch runs.  The clock is read at 08:59, 09:00, 10:30, 23:59
\* and 00:00 of the next day.
AheadSamples == DueSamples \cup { MinutesPerDay }

AheadOptions ==
    [t \in AheadSamples |->
        { ScheduleOption("CUSTOM", (t + 1) % MinutesPerDay) }]

NextAhead ==
    \/ BeginRun(AheadSamples) \/ TickRow \/ LaunchReturn \/ TickStarted
    \/ AddStream(AheadSamples, AheadOptions)
    \/ QuickAdd(AheadSamples, AheadOptions)
    \/ GoesLive

SpecAhead == Init /\ [][NextAhead]_vars

\* Starting: the tick and the Start button against the watchers, with a
\* media file that comes and goes and an encoder that may fail to launch.
\* The clock is read at 08:59 or 09:00, streams are added for 09:00: one
\* added at 08:59 becomes due, one added at 09:00 is due at once.
StartSamples == { StartOfDay, 9 * MinutesPerHour }

StartOptions ==
    [t \in StartSamples |-> { ScheduleOption("CUSTOM", 9 * MinutesPerHour) }]

NextStart ==
    \/ BeginRun(StartSamples) \/ TickRow \/ LaunchReturn \/ TickStarted
    \/ AddStream(StartSamples, StartOptions)
    \/ ManualStart \/ ManualStarted(StartSamples)
    \/ FileChange
    \/ Exit \/ Watcher

SpecStart == Init /\ [][NextStart]_vars

\* Retrying: streams are added for NOW or for 09:00, the clock is read at
\* 08:59 or 09:00, the media file comes and goes and the encoder may fail
\* to launch.  The script is run again and again (every interaction and
\* every st.rerun() starts a run, which begins with the tick at 712) and a
\* run goes on to its end; a launch that can succeed again and again does
\* succeed.
RetryOptions ==
    [t \in StartSamples |->
        { ScheduleOption("NOW", 0), ScheduleOption("CUSTOM", 9 * MinutesPerHour) }]

NextRetry ==
    \/ BeginRun(StartSamples) \/ TickRow \/ LaunchReturn \/ TickStarted
    \/ AddStream(StartSamples, RetryOptions)
    \/ FileChange

\* the states in which a step of BeginRun that changes the state is there
BeginRunEnabled(samples) ==
    /\ script.pc \in {"idle", "ui"}
    /\ \E t \in samples :
         /\ t >= now
         /\ \/ t # now
            \/ TickGoto([Idle EXCEPT !.snap = streams, !.tnow = t], 1, streams)
                  # script

\* the states in which TickRow can take its step, and those in which the
\* start it makes can succeed
TickRowEnabled == script.pc = "tick" /\ Len(procs) < MaxProcs

LaunchEnabled == TickRowEnabled /\ MediaExists(script.snap[script.i].Video)

\* weak fairness of BeginRun, TickRow, LaunchReturn and TickStarted and
\* strong fairness of a launch by the tick that succeeds; but for
\* LaunchReturn they are written out with the states in which the action is
\* enabled
FairTicking ==
    /\ []<>(~BeginRunEnabled(StartSamples))
          \/ []<><<BeginRun(StartSamples)>>_vars
    /\ []<>(~TickRowEnabled) \/ []<><<TickRow>>_vars
    /\ WF_vars(LaunchReturn)
    /\ []<>(script.pc # "tick_started") \/ []<><<TickStarted>>_vars
    /\ <>[](~LaunchEnabled)
          \/ []<><<TickRow /\ script'.pc = "tick_launch">>_vars

SpecRetry == Init /\ [][NextRetry]_vars /\ FairTicking

\* Stopping: the Stop button against the threads of a launch, the go-live
\* thread included, with no delete.  The
\* clock stays within 08:59, streams are added with the quick form for NOW,
\* while there are fewer than MaxStopStreams.
NextStop ==
    \/ BeginRun(ClockSamples) \/ TickRow \/ LaunchReturn \/ TickStarted
    \/ Len(streams) < MaxStopStreams /\ QuickAdd(ClockSamples, AddOptions)
    \/ StopButton
    \/ StopTerminate \/ StopPoll \/ StopDel \/ StopSet \/ StopComplete
    \/ Exit \/ Watcher \/ Completes \/ GoesLive

SpecStop == Init /\ [][NextStop]_vars

\* Loading: the program starts with a streams_config.json that was written
\* by hand.  Its rows are waiting; a schedule is NOW, 09:00 WIB, or one that
\* line 616-618 cannot parse: an empty string (the default of a missing
\* column, 415-416), a missing value, a time without a colon, a minute that
\* is not a number.  The tick runs at 08:59 or 09:00, the media file comes
\* and goes, the encoder may fail to launch.
MalformedSchedules ==
    { <<>>, NaNStr, <<"0", "9", "0", "0">>, <<"9", ":", "x", "x">> \o WIB }

LoadedSchedules ==
    MalformedSchedules \cup { NOW, format_jakarta_time(9 * MinutesPerHour) }

\* lines 400-422 and 430-434: load_stream_config, the rows indexed from 0
load_stream_config(schedules) ==
    [k \in 1..Len(schedules) |->
        [NewStream(Video, schedules[k], "", k, -1, -1) EXCEPT !.idx = k - 1]]

InitLoad ==
    /\ \E n \in 0..MaxLoaded :
         \E schedules \in [1..n -> LoadedSchedules] :
            disk = load_stream_config(schedules)
    /\ streams = disk
    /\ processes = << >>
    /\ procs = <<>>
    /\ files = {Video}
    /\ now = StartOfDay
    /\ script = Idle
    /\ nuid = Len(disk)
    /\ stopped = NoStop

\* a file whose rows are all for NOW, each with a quality of the forms
\* (890, 952) or one that is not in the table
Qualities == Profiles \cup {"4k"}

InitQuality ==
    /\ \E n \in 0..MaxLoaded :
         \E quality \in [1..n -> Qualities] :
            disk = [k \in 1..n |->
                      [load_stream_config([j \in 1..n |-> NOW])[k]
                         EXCEPT !.Quality = quality[k]]]
    /\ streams = disk
    /\ processes = << >>
    /\ procs = <<>>
    /\ files = {Video}
    /\ now = StartOfDay
    /\ script = Idle
    /\ nuid = Len(disk)
    /\ stopped = NoStop

\* Encoding: the tick launches the streams of the file, each with its
\* quality.
NextQuality ==
    \/ BeginRun(ClockSamples) \/ TickRow \/ LaunchReturn \/ TickStarted

SpecQuality == InitQuality /\ [][NextQuality]_vars

NextLoad ==
    \/ BeginRun(StartSamples) \/ TickRow \/ LaunchReturn \/ TickStarted
    \/ FileChange

SpecLoad == InitLoad /\ [][NextLoad]_vars

\* Stop and delete on a loaded registry: the tick launches the rows that are
\* due, the user stops running rows and deletes rows.
NextDelete ==
    \/ BeginRun(StartSamples) \/ TickRow \/ LaunchReturn \/ TickStarted
    \/ StopButton \/ DeleteButton \/ DeleteDrop
    \/ StopTerminate \/ StopPoll \/ StopDel \/ StopSet

SpecDelete == InitLoad /\ [][NextDelete]_vars

(***************************************************************************)
(* The file.  streams_config.json as text: a list of objects, one for a    *)
(* row, each a function from the keys it has to JSON values.  A JSON value *)
(* is a string, a number, true or false, or NaN, which json.dump writes    *)
(* for a missing value and json.load reads back.                           *)
(***************************************************************************)
\* line 410
required_columns ==
    { "Video", "StreamingKey", "JamMulai", "Status", "PID", "IsShorts",
      "Quality", "BroadcastID", "Channel" }

\* the missing value of a column, as the model writes it
NaNOf(col) ==
    CASE col = "PID"      -> NaNPid
      [] col = "JamMulai" -> NaNStr
      [] OTHER            -> "NaN"

\* json.dump of one cell (395)
JsonValue(col, v) ==
    IF v = NaNOf(col)
    THEN [type |-> "NaN"]
    ELSE [type |-> CASE col = "PID"      -> "number"
                     [] col = "IsShorts" -> "bool"
                     [] OTHER            -> "string",
          val  |-> v]

\* json.dump of the rows of to_dict (390-395); the label of a row is not a
\* key of its object
json_dump(streams_data) ==
    [k \in 1..Len(streams_data) |->
        [c \in (DOMAIN streams_data[k]) \ {"idx"} |->
            JsonValue(c, streams_data[k][c])]]

\* PythonValue that reads NaN as an empty cell
PythonValueNoNaN(col, j) ==
    IF j.type = "NaN" THEN (IF col = "PID" THEN 0 ELSE "") ELSE j.val

\* json.load of one cell (404)
PythonValue(col, j) == IF j.type = "NaN" THEN NaNOf(col) ELSE j.val

\* json.load (404-405): the list of dicts
json_load(text) ==
    [k \in 1..Len(text) |->
        [c \in DOMAIN text[k] |-> PythonValue(c, text[k][c])]]

\* pd.DataFrame(streams_data) (407): the columns are the keys of all the
\* dicts; a dict without a key has a missing value in that column; the rows
\* are labelled from 0
DataFrame(streams_data) ==
    LET columns == UNION {DOMAIN streams_data[k] : k \in 1..Len(streams_data)}
    IN  [k \in 1..Len(streams_data) |->
            [c \in columns \cup {"idx"} |->
                IF c = "idx" THEN k - 1
                ELSE IF c \in DOMAIN streams_data[k] THEN streams_data[k][c]
                ELSE NaNOf(c)]]

\* lines 413-421: the value a column that is not in the frame is filled with
Default(col) ==
    CASE col = "Channel"  -> "default"
      [] col = "JamMulai" -> <<>>
      [] col \in {"Video", "StreamingKey", "Status", "BroadcastID"} -> ""
      [] col = "IsShorts" -> "False"
      [] col = "Quality"  -> "720p"
      [] OTHER            -> 0

\* lines 411-421: every required column that is not in the frame is added
BackFill(df) ==
    [k \in 1..Len(df) |->
        [c \in (DOMAIN df[k]) \cup required_columns |->
            IF c \in DOMAIN df[k] THEN df[k][c] ELSE Default(c)]]

\* there is no streams_config.json
Missing == << [missing |-> TRUE] >>

\* load_stream_config (400-427) of any file: an empty frame when there is no
\* file (403, 424), when it cannot be parsed (425-427) or when its list is
\* empty (406, 424)
LoadConfig(file) ==
    IF file \in {Missing, Truncated} \/ file = <<>>
    THEN <<>>
    ELSE BackFill(DataFrame(json_load(file)))

\* the objects of a file written by hand or by an older version: one with
\* every key, for a stream that waits, runs or was stopped, and the same
\* without some of the keys
Object(status, pid, quality, broadcast_id, channel) ==
    [Video       |-> JsonValue("Video", Video),
     StreamingKey |-> JsonValue("StreamingKey", "key"),
     JamMulai    |-> JsonValue("JamMulai", NOW),
     Status      |-> JsonValue("Status", status),
     PID         |-> JsonValue("PID", pid),
     IsShorts    |-> JsonValue("IsShorts", "False"),
     Quality     |-> JsonValue("Quality", quality),
     BroadcastID |-> JsonValue("BroadcastID", broadcast_id),
     Channel     |-> JsonValue("Channel", channel)]

Without(object, keys) == [c \in (DOMAIN object) \ keys |-> object[c]]

Optional == {"Channel", "Quality", "BroadcastID", "PID"}

FullObjects ==
    { Object(Waiting, 0, "720p", "", "default"),
      Object(Running, 1, "1080p", "bc", "second"),
      Object(Stopped, 0, "480p", "bc", "default") }

FileObjects ==
    FullObjects
    \cup { Without(Object(Running, 1, "1080p", "bc", "second"), {c}) :
             c \in Optional \cup {"Status"} }
    \cup { Without(Object(Waiting, 0, "720p", "", "default"), Optional) }

Files ==
    { Missing } \cup
    UNION { [1..n -> FileObjects] : n \in 0..MaxLoaded }

\* lines 430-434 with the file as it is found
InitFile ==
    /\ disk \in Files
    /\ streams = LoadConfig(disk)
    /\ processes = << >>
    /\ procs = <<>>
    /\ files = {Video}
    /\ now = StartOfDay
    /\ script = Idle
    /\ nuid = 0
    /\ stopped = NoStop

\* save_stream_config (387-398) of the registry as it is; snap keeps the
\* registry that was saved
SaveConfig ==
    /\ script.pc \in {"idle", "loaded"}
    /\ disk' = json_dump(to_dict(streams))
    /\ script' = [Idle EXCEPT !.pc = "saved", !.snap = streams]
    /\ UNCHANGED <<streams, processes, procs, files, now, nuid, stopped>>

\* the program is started again: lines 430-434
Restart ==
    /\ script.pc = "saved"
    /\ streams' = LoadConfig(disk)
    /\ processes' = << >>
    /\ script' = [script EXCEPT !.pc = "loaded"]
    /\ UNCHANGED <<disk, procs, files, now, nuid, stopped>>

NextFile == SaveConfig \/ Restart

SpecFile == InitFile /\ [][NextFile]_vars

\* Saving: the writes of streams_config.json by the add form and by the
\* watchers, statement by statement, with the tick.  The clock stays within
\* 08:59, streams are added for NOW.
Saves ==
    \/ \E p \in Pids : WatchSetOpen(p)
    \/ \E p \in Pids : WatchDump(p)
    \/ SaveDump

NextSave ==
    \/ BeginRun(ClockSamples) \/ TickRow \/ LaunchReturn \/ TickStarted
    \/ AddStreamOpen(ClockSamples, AddOptions)
    \/ Exit
    \/ \E p \in Pids : WatchCheck(p)
    \/ \E p \in Pids : WatchDel(p)
    \/ Saves

SpecSave == Init /\ [][NextSave]_vars

(***************************************************************************)
(* Properties.                                                             *)
(***************************************************************************)
\* the row of record u in the registry, if it is there
HasRecord(df, u) == \E k \in 1..Len(df) : df[k].uid = u

RecordOf(df, u) == df[CHOOSE k \in 1..Len(df) : df[k].uid = u]

\* C1: at most one live encoder process exists for any record id (the key
\* under which run_ffmpeg stores the handle): no process is launched for an
\* id while a process launched for that id is still alive.
C1_OneLiveProcessPerId ==
    \A p \in Live, q \in Live :
        procs[p].stream_index = procs[q].stream_index => p = q

\* no widget handler is in progress and no watcher is between its lookup
\* and the end of its update
Quiescent ==
    /\ script.pc \in {"idle", "ui"}
    /\ \A p \in Pids : procs[p].wpc \in {"communicate", "done"}

\* C2: after every completed operation, for every record: its status is
\* Running iff the process map holds a handle under its id iff its pid is
\* not 0.
C2_RunningIffHandleIffPid ==
    Quiescent =>
        \A k \in 1..Len(streams) :
            /\ streams[k].Status = Running <=> HasKey(streams[k].idx)
            /\ streams[k].Status = Running <=> streams[k].PID # 0

AllowedTransitions ==
    { <<Waiting, Running>>, <<Running, Finished>>, <<Running, Stopped>> }

\* C3: the status of a record only changes along Waiting -> Running,
\* Running -> Finished or Running -> Stopped; Stopped and Finished are left
\* by no tick, watcher or start.
C3_StatusTransitions ==
    [][\A u \in 1..nuid :
         (HasRecord(streams, u) /\ HasRecord(streams', u)) =>
            \/ RecordOf(streams', u).Status = RecordOf(streams, u).Status
            \/ <<RecordOf(streams, u).Status, RecordOf(streams', u).Status>>
                   \in AllowedTransitions]_vars

\* the encoders launched for record u
LaunchedFor(u) == {p \in Pids : procs[p].uid = u}

\* C4: however many ticks run while a record is due, one encoder at most is
\* launched for it: a tick launches nothing for a record that was started.
C4_LaunchedOnce ==
    \A u \in 1..nuid : Cardinality(LaunchedFor(u)) <= 1

\* a tick has passed over a record that is running, whose schedule field is
\* due, and launched nothing for it
C4_Witness ==
    /\ script.pc = "ui"
    /\ \E k \in 1..Len(script.snap) :
         /\ script.snap[k].Status = Running
         /\ ShouldStart(script.snap[k].JamMulai, script.tnow)
         /\ script.snap[k].uid \notin script.called
         /\ Cardinality(LaunchedFor(script.snap[k].uid)) = 1

\* the record was scheduled one minute after the time it was added at
OneMinuteAhead(r) == r.uid >= 1 /\ r.target = r.added + 1

SameDay(r) == r.target \div MinutesPerDay = r.added \div MinutesPerDay

\* C5 as stated: a record added for one minute later is not launched by a
\* tick that runs before that minute is reached, whatever the time of day.
C5_NotBeforeItsMinute ==
    script.pc = "tick_started" =>
        (OneMinuteAhead(script.snap[script.i])
            => script.tnow >= script.snap[script.i].target)

\* C5 amended: the same, for a record added at any time of day but 23:59
\* (its minute, 00:00, is then on the next day, and the tick, which compares
\* hour and minute only, takes it as reached).
C5_NotBeforeItsMinuteSameDay ==
    script.pc = "tick_started" =>
        (OneMinuteAhead(script.snap[script.i]) /\ SameDay(script.snap[script.i])
            => script.tnow >= script.snap[script.i].target)

\* a tick in the minute the record was added has left it waiting
C5_Witness ==
    /\ script.pc = "ui"
    /\ \E k \in 1..Len(script.snap) :
         /\ OneMinuteAhead(script.snap[k]) /\ SameDay(script.snap[k])
         /\ script.tnow = script.snap[k].added
         /\ script.snap[k].Status = Waiting
         /\ script.snap[k].uid \notin script.called
         /\ LaunchedFor(script.snap[k].uid) = {}

\* the rule of the specification, on the hour and minute the schedule was
\* chosen to mean
DueByRule(r, t) ==
    \/ r.target = -1
    \/ HourOf(t) > HourOf(r.target)
    \/ HourOf(t) = HourOf(r.target) /\ MinuteOf(t) >= MinuteOf(r.target)

\* C6: the tick calls start_stream for a waiting record exactly when its
\* schedule is NOW, or the hour is past the scheduled hour, or the hour is
\* the scheduled hour and the minute is not before the scheduled minute.
C6_DueExactlyWhen ==
    /\ script.pc = "tick" => DueByRule(script.snap[script.i], script.tnow)
    /\ script.pc \in {"tick", "tick_launch", "tick_started", "ui"} =>
         \A k \in 1..Len(script.snap) :
            LET r == script.snap[k]
            IN  (r.uid >= 1 /\ (script.pc = "ui" \/ k < script.i)) =>
                  /\ r.uid \in script.called => DueByRule(r, script.tnow)
                  /\ (r.Status = Waiting /\ r.uid \notin script.called)
                        => ~DueByRule(r, script.tnow)

\* a record scheduled for 09:00 was taken as due by the tick of 09:00
C6_Witness ==
    /\ script.pc = "ui"
    /\ script.tnow = 9 * MinutesPerHour
    /\ \E k \in 1..Len(script.snap) :
         /\ script.snap[k].target = 9 * MinutesPerHour
         /\ script.snap[k].uid \in script.called

\* the keys of the process map that hold the handle of encoder p
KeysOf(f, p) == {k \in DOMAIN f : f[k] = p}

\* C7: when the encoder of a running record has ended by itself, its watcher
\* ends its update having removed the handle, set the record to Finished
\* with PID 0 and saved the registry, and goes on to ask for the completion
\* of the broadcast iff the record has one.
C7_WatcherFinishes ==
    [][\A p \in Pids :
         (/\ procs[p].own /\ procs[p].terminates = 0
          /\ procs[p].wpc \in {"communicate", "del", "set"}
          /\ procs'[p].wpc \in {"complete", "done"})
         =>
         /\ KeysOf(processes', p) = {}
         /\ HasRecord(streams', procs[p].uid) =>
               /\ RecordOf(streams', procs[p].uid).Status = Finished
               /\ RecordOf(streams', procs[p].uid).PID = 0
         /\ disk' = save_stream_config(streams')
         /\ procs'[p].wpc = "complete" <=> procs[p].broadcast_id # ""]_vars

InStop == {"stop_poll", "stop_del", "stop_set", "stop_complete"}

\* C8: when stop_stream has found a handle, then on its return the handle
\* is removed, the record is Stopped with PID 0 and the registry is saved,
\* however the watcher of the process interleaves.
C8_StopLeavesStopped ==
    [][(script.pc \in InStop /\ script'.pc \notin InStop) =>
         /\ ~(script.idx \in DOMAIN processes')
         /\ HasLabel(streams', script.idx)
         /\ Loc(streams', script.idx).Status = Stopped
         /\ Loc(streams', script.idx).PID = 0
         /\ disk' = save_stream_config(streams')]_vars

\* C9: two stop calls in a row on a record, the first of which found the
\* handle of a live encoder, end with one termination of the encoder, the
\* record Stopped, and no exception raised inside either call.
C9_TwoStops ==
    (/\ stopped.calls = 2 /\ stopped.live /\ Quiescent
     /\ HasRecord(streams, stopped.uid)) =>
        /\ stopped.excs = 0
        /\ RecordOf(streams, stopped.uid).Status = Stopped
        /\ \A p \in LaunchedFor(stopped.uid) : procs[p].terminates = 1

\* the step is a call of start_stream (by the tick or by the Start button)
\* for row r
TickCalls(r) ==
    script.pc = "tick" /\ script' # script /\ r = script.snap[script.i]

ButtonCalls(r) ==
    /\ script.pc = "ui"
    /\ \/ script'.pc = "manual_launch" /\ r.idx = script'.idx
       \/ script'.pc = "idle" /\ nuid' = nuid
    /\ \E k \in 1..Len(script.snap) : r = script.snap[k]
    /\ r.Status = Waiting

\* C10: start_stream for a waiting record whose media file does not exist
\* returns False and leaves the registry, the process map, the processes and
\* the saved registry as they are.
C10_MissingMediaNoStart ==
    [][\A r \in {script.snap[k] : k \in 1..Len(script.snap)} :
         ((TickCalls(r) \/ ButtonCalls(r)) /\ r.Video \notin files) =>
            /\ UNCHANGED <<streams, processes, disk, procs>>
            /\ script'.pc \notin Launching]_vars

\* the tick called start_stream for a record while the media file was
\* missing: the record is still waiting and nothing was launched for it
C10_Witness ==
    /\ script.pc = "ui"
    /\ files = {}
    /\ \E k \in 1..Len(script.snap) :
         /\ script.snap[k].uid \in script.called
         /\ script.snap[k].Status = Waiting
         /\ LaunchedFor(script.snap[k].uid) = {}
         /\ HasRecord(disk, script.snap[k].uid)
         /\ RecordOf(disk, script.snap[k].uid).Status = Waiting

\* the step is a call of start_stream for row r whose media file exists and
\* which returns False: the encoder could not be executed (549-551)
LaunchFails(r) ==
    /\ TickCalls(r) \/ ButtonCalls(r)
    /\ MediaExists(r.Video)
    /\ script'.pc \notin Launching

\* C11: when the launch of the encoder fails, start_stream returns False,
\* the record stays Waiting with PID 0 in the registry and in the saved
\* registry, and there is no handle, go-live thread or watcher for it.
C11_LaunchFailureLeavesWaiting ==
    [][\A r \in {script.snap[k] : k \in 1..Len(script.snap)} :
         LaunchFails(r) =>
            /\ UNCHANGED <<streams, processes, disk, procs>>
            /\ Loc(streams', r.idx).Status = Waiting
            /\ Loc(streams', r.idx).PID = 0
            /\ Loc(disk', r.idx).Status = Waiting
            /\ Loc(disk', r.idx).PID = 0
            /\ r.idx \notin DOMAIN processes'
            /\ \A p \in 1..Len(procs') : procs'[p].uid # r.uid]_vars

\* the tick called start_stream for a record whose media file exists and
\* the launch failed: the record is waiting, unlaunched, and saved so
C11_Witness ==
    /\ script.pc = "ui"
    /\ \E k \in 1..Len(script.snap) :
         /\ MediaExists(script.snap[k].Video)
         /\ script.snap[k].uid \in script.called
         /\ script.snap[k].Status = Waiting
         /\ script.snap[k].PID = 0
         /\ LaunchedFor(script.snap[k].uid) = {}
         /\ RecordOf(disk, script.snap[k].uid).Status = Waiting
         /\ RecordOf(disk, script.snap[k].uid).PID = 0

\* C12: when start_stream has launched the encoder for a waiting record,
\* then on its return the process map holds the handle under the record's
\* id, the record is Running with the PID of the encoder, which is not 0,
\* and the saved registry holds that status and PID.
C12_LaunchRecorded ==
    [][(script.pc \in Launching /\ script'.pc \notin Launching) =>
         LET u == procs[script.proc].uid
         IN  /\ HasRecord(streams', u) /\ HasRecord(disk', u)
             /\ RecordOf(streams', u).idx \in DOMAIN processes'
             /\ processes'[RecordOf(streams', u).idx] = script.proc
             /\ script.proc # 0
             /\ RecordOf(streams', u).PID = script.proc
             /\ RecordOf(streams', u).Status = Running
             /\ RecordOf(disk', u).PID = script.proc
             /\ RecordOf(disk', u).Status = Running]_vars

\* C13: stop_stream called when the process map holds no handle under the
\* id raises nothing and returns a value that is not True, sends no signal,
\* asks for no completion of a broadcast and leaves the registry, the
\* process map and the saved registry as they are.
C13_StopWithoutHandle ==
    [][(script.pc = "stop_stream" /\ ~HasKey(script.idx)
            /\ script'.pc # "stop_stream") =>
         /\ UNCHANGED <<streams, processes, disk, procs>>
         /\ stopped'.result = "None"
         /\ stopped'.excs =
               IF stopped.uid = script.uid THEN stopped.excs ELSE 0]_vars

\* stop_stream has returned None for a record that its watcher had set to
\* Finished, and the record is Finished
C13_Witness ==
    /\ script.pc = "idle"
    /\ stopped.result = "None"
    /\ stopped.calls = 1
    /\ HasRecord(streams, stopped.uid)
    /\ RecordOf(streams, stopped.uid).Status = Finished
    /\ RecordOf(streams, stopped.uid).PID = 0
    /\ RecordOf(disk, stopped.uid).Status = Finished
    /\ \A p \in LaunchedFor(stopped.uid) :
          procs[p].terminates = 0 /\ procs[p].kills = 0

\* the fields of the rows without their index labels, in order
Fields(df) == [k \in 1..Len(df) |-> [df[k] EXCEPT !.idx = 0]]

\* C14: when the Delete button drops the row of a record, the registry
\* becomes the registry without that record, every other row with its fields
\* and in its order, and the file holds it; when the row was running, no
\* encoder launched for the record is alive and no handle to one is kept,
\* whatever the stop_stream before the drop returned.
C14_DeleteRemoves ==
    [][(script.pc = "delete_drop" /\ script.uid # 0 /\ script'.pc = "idle") =>
         /\ Fields(streams') =
              Fields(SelectSeq(streams, LAMBDA r : r.uid # script.uid))
         /\ disk' = save_stream_config(streams')
         /\ script.ret = "delete" =>
              \A p \in LaunchedFor(script.uid) :
                 /\ ~procs'[p].alive
                 /\ KeysOf(processes', p) = {}]_vars

\* a step of check_scheduled_streams
TickStep ==
    /\ script.pc \in {"tick", "tick_launch", "tick_started"}
    /\ script' # script

\* C15: a step of the tick works on a row that was waiting and due in the
\* copy the tick iterates, and changes no other row; when start_stream has
\* returned True the schedule field of the row becomes the time the tick
\* read and the file holds the registry; in every other step of the tick,
\* the call that fails included, the schedule field stays as it was.
C15_TickFrame ==
    [][TickStep =>
         LET r == script.snap[script.i]
         IN  /\ TickTakes(r, script.tnow)
             /\ Len(streams') = Len(streams)
             /\ \A k \in 1..Len(streams) :
                   streams[k].uid # r.uid => streams'[k] = streams[k]
             /\ HasRecord(streams', r.uid)
             /\ IF script.pc = "tick_started"
                THEN /\ RecordOf(streams', r.uid).JamMulai =
                           format_jakarta_time(script.tnow)
                     /\ disk' = save_stream_config(streams')
                ELSE RecordOf(streams', r.uid).JamMulai = r.JamMulai]_vars

\* a tick has passed a waiting stream that is not due, its schedule as it was
\* added, and has started a stream added for NOW, whose schedule is now the
\* time of the tick
C15_Witness ==
    /\ script.pc = "ui"
    /\ disk = save_stream_config(streams)
    /\ \E a, b \in 1..Len(streams) :
         /\ streams[a].target = -1
         /\ streams[a].Status = Running
         /\ streams[a].uid \in script.called
         /\ streams[a].JamMulai = format_jakarta_time(script.tnow)
         /\ streams[b].target # -1
         /\ streams[b].Status = Waiting
         /\ streams[b].uid \notin script.called
         /\ streams[b].JamMulai \in
               {format_jakarta_time(streams[b].target),
                StrfHM(streams[b].target)}

\* C16: a row whose schedule cannot be parsed is never started: it stays
\* waiting, start_stream is not called for it and no encoder is launched for
\* it; and it stops no tick: when the tick is over, start_stream has been
\* called in it for every row that is still waiting and due, whatever became
\* of the rows before it.
C16_TickGoesOn ==
    /\ \A k \in 1..Len(streams) :
          streams[k].JamMulai \in MalformedSchedules =>
             /\ streams[k].Status = Waiting
             /\ streams[k].uid \notin script.called
             /\ LaunchedFor(streams[k].uid) = {}
    /\ script.pc = "ui" =>
          \A k \in 1..Len(streams) :
             /\ TickTakes(streams[k], script.tnow) =>
                   streams[k].uid \in script.called
             /\ streams[k].uid \in script.called =>
                   \/ streams[k].Status = Running
                   \/ streams[k].Status = Waiting /\ LaunchedFor(streams[k].uid) = {}

\* a tick is over in which the first row could not be parsed, or could not
\* be started, and a row after it was started
C16_Witness ==
    /\ script.pc = "ui"
    /\ \E a, b, c \in 1..Len(streams) :
         /\ a < c /\ b < c
         /\ streams[a].JamMulai \in MalformedSchedules
         /\ streams[b].uid \in script.called
         /\ streams[b].Status = Waiting
         /\ streams[c].uid \in script.called
         /\ streams[c].Status = Running

\* the launches for which a call to the provider returns in this step
ProviderCalls ==
    {p \in Pids : \/ procs'[p].golives # procs[p].golives
                  \/ procs'[p].completes # procs[p].completes}

\* C17: a step in which a call to the provider returns, with True or with
\* False, leaves the registry, the process map and the file as they are; the
\* call of the go-live thread and that of the watcher leave the script
\* thread alone, and after the call of stop_stream, stop_stream returns True
\* with no exception raised.
C17_ProviderFailureIgnored ==
    [][ProviderCalls # {} =>
         /\ UNCHANGED <<streams, processes, disk>>
         /\ IF script.pc = "stop_complete" /\ script' # script
            THEN /\ stopped'.result = "True"
                 /\ stopped'.excs =
                      IF stopped.uid = script.uid THEN stopped.excs ELSE 0
            ELSE UNCHANGED <<script, stopped>>]_vars

\* a stream went live, was stopped, and both calls to the provider returned
\* False: the stop returned True, the record is stopped in the registry and
\* in the file, its encoder is dead and its handle gone
C17_Witness ==
    /\ script.pc = "idle"
    /\ stopped.result = "True"
    /\ stopped.live
    /\ HasRecord(streams, stopped.uid)
    /\ RecordOf(streams, stopped.uid).Status = Stopped
    /\ RecordOf(streams, stopped.uid).PID = 0
    /\ disk = save_stream_config(streams)
    /\ processes = << >>
    /\ \E p \in LaunchedFor(stopped.uid) :
         /\ ~procs[p].alive
         /\ procs[p].failed = {"golive", "stop"}

\* the step in which start_stream or stop_stream returns to its caller
Returns ==
    \/ script.pc \in Launching /\ script'.pc \notin Launching
    \/ /\ script.pc \in InStop \cup {"stop_stream"}
       /\ script'.pc \in {"idle", "delete_drop"}

\* C18: start_stream and stop_stream return without a call to the provider
\* having returned first: the step in which one of them returns is never the
\* step in which the provider answers.
C18_ReturnsWithoutProvider == [][Returns => ProviderCalls = {}]_vars

\* C19: the key of a handle in the process map is the index label of the
\* record the encoder was launched for, for as long as that record is in the
\* registry.
C19_KeyIdentifiesRecord ==
    \A k \in DOMAIN processes :
       LET u == procs[processes[k]].uid
       IN  HasRecord(streams, u) => RecordOf(streams, u).idx = k

\* a watcher is between its lookup of the handle (531) and the end of its
\* update of the registry (535)
WatcherBusy == \E p \in Pids : procs[p].wpc \in {"del", "set"}

\* a step of the script thread that changes the registry, the process map
\* or the file
ScriptMutation ==
    /\ script' # script
    /\ <<streams, processes, disk>>' # <<streams, processes, disk>>

\* C20: while a watcher is between its lookup of the handle and the end of
\* its update, neither the tick nor a handler of the script thread changes
\* the registry, the process map or the file.
C20_WatcherSerialized == [][WatcherBusy => ~ScriptMutation]_vars

\* the status and the PID of every row, in order
StatusAndPid(df) ==
    [k \in 1..Len(df) |-> [Status |-> df[k].Status, PID |-> df[k].PID]]

\* C21: when no handler and no watcher is at work, the file holds the rows
\* of the registry in memory, each with the status and the PID it has there.
C21_FileIsRegistry ==
    Quiescent => /\ disk # Truncated
                 /\ StatusAndPid(disk) = StatusAndPid(streams)

\* C22: streams_config.json holds a complete snapshot at every moment.
C22_FileComplete == disk # Truncated

\* C23: a registry that was saved and loaded again has the rows it had,
\* in their order, each with the value it had in every column, and the
\* labels that load gives: 0, 1, 2, ...
C23_RoundTrip ==
    script.pc = "loaded" =>
        /\ Fields(streams) = Fields(script.snap)
        /\ \A k \in 1..Len(streams) : streams[k].idx = k - 1

\* a registry of two rows or more, one of them with a missing value, was
\* saved and loaded again
C23_Witness ==
    /\ script.pc = "loaded"
    /\ Len(script.snap) >= 2
    /\ \E k \in 1..Len(script.snap) :
         script.snap[k].Quality = NaNOf("Quality")
    /\ \E k \in 1..Len(script.snap) : script.snap[k].PID = 1

\* C24: in the registry loaded at the start, a row has the documented
\* default in every optional column that its object in the file has no key
\* for, and the value of the file in every column it has a key for; with no
\* file the registry is empty.
C24_BackFill ==
    script.pc = "idle" =>
        IF disk = Missing
        THEN streams = <<>>
        ELSE /\ Len(streams) = Len(disk)
             /\ \A k \in 1..Len(disk) : \A c \in Optional :
                   streams[k][c] = IF c \in DOMAIN disk[k]
                                   THEN PythonValue(c, disk[k][c])
                                   ELSE Default(c)

Statuses == {Waiting, Running, Stopped, Finished}

\* C25: the status of every row of the registry is one of the four.
C25_FourStatuses == \A k \in 1..Len(streams) : streams[k].Status \in Statuses

\* C26: in the registry as it is loaded when the program starts, with the
\* process map empty, no row is running.
C26_NoRunningAfterLoad ==
    (script.pc \in {"idle", "loaded"} /\ processes = << >>) =>
        \A k \in 1..Len(streams) : streams[k].Status # Running

\* C27: start_youtube_broadcast is called for a launch only when its
\* broadcast_id is not empty, once, by the thread that slept first, after
\* run_ffmpeg has stored the handle and the status and has returned; the
\* call is no step of the script thread.
C27_GoLiveAfterStart ==
    [][\A p \in Pids :
          procs'[p].golives # procs[p].golives =>
             /\ procs[p].broadcast_id # ""
             /\ procs[p].glpc = "sleep"
             /\ procs[p].wpc # "none"
             /\ ~(script.pc \in Launching /\ script.proc = p)
             /\ procs'[p].golives = 1
             /\ UNCHANGED <<script, streams, processes, disk>>]_vars

\* a stream with a broadcast went live and a stream without one was
\* launched and did not
C27_Witness ==
    \E p, q \in Pids :
       /\ procs[p].broadcast_id # ""
       /\ procs[p].golives = 1
       /\ procs[q].broadcast_id = ""
       /\ procs[q].wpc = "communicate"
       /\ procs[q].glpc = "none"
       /\ procs[q].golives = 0
       /\ script.pc \notin Launching

\* C28: a process is killed only by stop_stream after the sleep, only when
\* it was sent SIGTERM before and is still alive then, and a process that
\* is alive then is killed; when stop_stream returns after it found a
\* handle, the process was sent SIGTERM; and after the sleep stop_stream
\* goes on whether the process has ended or not.
C28_TerminateThenKill ==
    /\ [][\A p \in Pids :
             procs'[p].kills # procs[p].kills =>
                /\ script.pc = "stop_poll" /\ script.proc = p
                /\ procs[p].terminates >= 1
                /\ procs[p].alive]_vars
    /\ [][(script.pc = "stop_poll" /\ script'.pc # "stop_poll") =>
             /\ ~procs'[script.proc].alive
             /\ procs'[script.proc].kills =
                  procs[script.proc].kills +
                     (IF procs[script.proc].alive THEN 1 ELSE 0)]_vars
    /\ [][(script.pc \in InStop /\ script'.pc \in {"idle", "delete_drop"}) =>
             procs[script.proc].terminates >= 1]_vars
    /\ [](script.pc = "stop_poll" => ENABLED StopPoll)

\* a stop has returned True after it killed an encoder that had not ended
\* two seconds after SIGTERM
C28_Witness ==
    /\ script.pc = "idle"
    /\ stopped.result = "True"
    /\ \E p \in LaunchedFor(stopped.uid) :
         /\ procs[p].terminates = 1
         /\ procs[p].kills = 1
         /\ ~procs[p].alive
         /\ ~procs[p].own

\* C29: in the command of every launch, the GOP size and the minimum
\* keyframe interval are twice the frame rate of the command, and the scene
\* cut threshold is 0.
C29_KeyframeInterval ==
    \A p \in Pids :
       /\ procs[p].cmd.g = 2 * procs[p].cmd.r
       /\ procs[p].cmd.keyint_min = 2 * procs[p].cmd.r
       /\ procs[p].cmd.sc_threshold = 0

\* a step of stop_stream called from the "Stop" button
UserStopStep ==
    /\ script.ret = "stop"
    /\ script.pc \in {"stop_stream", "stop_poll", "stop_del", "stop_set"}
    /\ script' # script

\* the processes that get a signal in the step
Signalled ==
    { p \in Pids : \/ procs'[p].terminates # procs[p].terminates
                   \/ procs'[p].kills # procs[p].kills }

\* the uids of the rows that are Stopped after the step and were not before
\* (0 for a row that was not there)
NewlyStopped ==
    { IF k <= Len(streams) THEN streams[k].uid ELSE 0 :
        k \in { j \in 1..Len(streams') :
                  /\ streams'[j].Status = Stopped
                  /\ j <= Len(streams) => streams[j].Status # Stopped } }

\* C30: a stop from the "Stop" button of a record signals only the encoder
\* that was launched for that record and marks only that record Stopped.
C30_StopOnlyItsOwn ==
    [][UserStopStep =>
         /\ \A p \in Signalled : procs[p].uid = script.uid
         /\ NewlyStopped \subseteq {script.uid}]_vars

\* the watcher of process p takes its step on the process map or on the
\* registry
WatcherStep(p) ==
    /\ procs[p].wpc \in {"del", "set"}
    /\ procs'[p].wpc # procs[p].wpc

\* C31: a step of the watcher of a process changes only the record the
\* process was launched for, removes only the handle of that process and
\* adds no row to the registry.
C31_WatcherConfined ==
    [][\A p \in Pids :
         WatcherStep(p) =>
            /\ Len(streams') = Len(streams)
            /\ \A k \in 1..Len(streams) :
                  streams'[k] # streams[k] => streams[k].uid = procs[p].uid
            /\ \A k \in DOMAIN processes :
                  k \notin DOMAIN processes' => processes[k] = p]_vars

\* C32: every encoder that is alive has its handle in the process map under
\* the index label of a record of the registry, the record it was launched
\* for, and that record is Running.
C32_LiveProcessReachable ==
    \A p \in Pids :
       procs[p].alive =>
          \E k \in DOMAIN processes :
             /\ processes[k] = p
             /\ HasLabel(streams, k)
             /\ Loc(streams, k).uid = procs[p].uid
             /\ Loc(streams, k).Status = Running

\* C33: when the record of a manual start is Finished at the time the
\* handler of the "Start Now" button makes its update after start_stream,
\* the record is still Finished, and not Running, after the update.
C33_ManualStartKeepsFinished ==
    [][(/\ script.pc = "manual_started"
        /\ script' # script
        /\ HasLabel(streams, script.idx)
        /\ Loc(streams, script.idx).Status = Finished)
       => Loc(streams', script.idx).Status = Finished]_vars

\* C34: start_youtube_broadcast is not called for a launch after
\* stop_youtube_broadcast was called for it, by the watcher or by
\* stop_stream.
C34_NoGoLiveAfterComplete ==
    [][\A p \in Pids :
          procs'[p].golives # procs[p].golives => procs[p].completes = 0]_vars

\* the run of process p is over: the encoder has ended, its watcher is
\* through, and no stop_stream is at work on it
RunOver(p) ==
    /\ ~procs[p].alive
    /\ procs[p].wpc = "done"
    /\ ~(script.pc \in InStop /\ script.proc = p)

WaitingDue(u) ==
    /\ HasRecord(streams, u)
    /\ RecordOf(streams, u).Status = Waiting
    /\ DueByRule(RecordOf(streams, u), now)

====
